---------------------------- MODULE Spec2Model ----------------------------
(***************************************************************************)
(* A model of three parts of Pyomo:                                        *)
(*   - pyomo/common/deprecation.py: deprecation_warning, moved_module and  *)
(*     the MovedModuleFinder / MovedModuleLoader import hook;              *)
(*   - pyomo/solvers/plugins/solvers/GAMS.py: GAMSSolver.__new__ and the   *)
(*     solve methods of GAMSDirect and GAMSShell;                          *)
(*   - the BARON writer's row ordering as exercised by                     *)
(*     pyomo/repn/tests/baron/test_baron.py.                               *)
(* Python's None is the string "None"; a dict is a function whose DOMAIN   *)
(* is its key set.                                                         *)
(***************************************************************************)
EXTENDS Integers, Sequences, FiniteSets, TLC

VARIABLES
    mapping,          \* MovedModuleFinder.mapping: old name -> MovedModuleInfo
    sys_modules,      \* sys.modules: module name -> module object
    log,              \* records handed to logger.warning, in order
    emitted_warnings, \* deprecation_warning.emitted_warnings
    dep_last,         \* the last deprecation/import operation and its outcome
    solver,           \* what GAMSSolver(...) returned: a registered solver name
    self_options,     \* the solver's self.options
    gdxcc_available,  \* GAMS.py:63, whether the gdx bindings were imported
    fs,               \* the file system: directories and (directory, file) pairs
    model_smaps,      \* per model, the symbol maps it holds: id -> SymbolMap
    model_values,     \* per model, the solution loaded into its variables
    results,          \* the results object the last solve returned
    solver_log,       \* messages handed to logger.error of 'pyomo.solvers'
    next_id,          \* the id() of the next symbol map
    gams_last,        \* the last GAMS operation, its arguments and outcome
    bar_model,        \* the components of the model of test_baron, as declared
    bar_file,         \* the rows of the last .bar file written
    bar_ref,          \* an earlier write, kept to compare with
    bar_last,         \* the last operation on the model of test_baron
    decorated,        \* what @deprecated has returned, by the name of the object
    dec_last,         \* the last decoration or call of a wrapper, and its outcome
    h_model,          \* the Pyomo model of test_highs_persistent
    h_opt,            \* what the persistent Highs solver holds of that model
    h_last,           \* the last operation on them, and the result of a solve
    bw_model,         \* the model of the BARON tests with functions and suffixes
    bw_last           \* the last operation on it, and the outcome of a write

dep_vars == <<mapping, sys_modules, log, emitted_warnings, dep_last>>

gams_vars == <<solver, self_options, gdxcc_available, fs, model_smaps,
               model_values, results, solver_log, next_id, gams_last>>

bar_vars == <<bar_model, bar_file, bar_ref, bar_last>>

dec_vars == <<decorated, dec_last>>

highs_vars == <<h_model, h_opt, h_last>>

bw_vars == <<bw_model, bw_last>>

vars == <<dep_vars, gams_vars, bar_vars, dec_vars, highs_vars, bw_vars>>

(***************************************************************************)
(* dict helpers                                                            *)
(***************************************************************************)
EmptyDict == <<>>

Update(d1, d2) ==
    [k \in DOMAIN d1 \cup DOMAIN d2 |-> IF k \in DOMAIN d2 THEN d2[k] ELSE d1[k]]

Put(d, k, v) == [x \in DOMAIN d \cup {k} |-> IF x = k THEN v ELSE d[x]]

Without(d, K) == [k \in DOMAIN d \ K |-> d[k]]

(***************************************************************************)
(* Bounds of the deprecation part                                          *)
(***************************************************************************)
MaxLog == 2

(***************************************************************************)
(* Module names.  OnDisk are the modules the regular finders can load; the *)
(* other names have been removed (or never existed).                       *)
(***************************************************************************)
ModNames == {"a", "b", "c"}
OnDisk == {"c"}
NoModule == "NoModule"

\* Frames of the Python stack: the module whose globals the frame runs in
\* and the file:line it is at.
NoFrame == [mod |-> "None", loc |-> "None"]
PyomoFrame == [mod |-> "pyomo.core", loc |-> "core.py:5"]
UserFrame == [mod |-> "user", loc |-> "user.py:7"]
BootstrapFrame == [mod |-> "importlib._bootstrap", loc |-> "_bootstrap.py"]
ImportlibFrame == [mod |-> "importlib", loc |-> "importlib/__init__.py"]

StartsWithPyomo(name) == name \in {"pyomo.core", "pyomo.solvers", "pyomo"}


\* Messages are triples so that every message has one shape:
\* <<kind, first argument, second argument>>.
NoneMsg == <<"None", "", "">>
NOTSET == <<"NOTSET", "", "">>
UserMsg(m) == <<"user", m, "">>

(***************************************************************************)
(* default_deprecation_msg(obj, user_msg, version, remove_in).  The result *)
(* is the text with its parts kept apart: the message, the description of  *)
(* obj used by the generic message, and the two parts of the trailing      *)
(* comment ("" when the part is left out because the value is falsy).      *)
(***************************************************************************)
default_deprecation_msg(obj, user_msg, version, remove_in) ==
    [text |-> IF user_msg = NoneMsg
              THEN <<"This has been deprecated",
                     IF obj \in {"class", "method", "function"} THEN obj ELSE "", "">>
              ELSE user_msg,
     deprecated_in |-> IF version \notin {"None", ""} THEN version ELSE "",
     removed_in |-> IF remove_in \notin {"None", ""} THEN remove_in ELSE ""]

(***************************************************************************)
(* deprecation_warning(msg, logger, version, remove_in, calling_frame).    *)
(* stack.f1 and stack.f2 are what _find_calling_frame(1) and               *)
(* _find_calling_frame(2) return on the current Python stack.  st holds    *)
(* the log and the emitted-warnings cache; the result is the outcome and   *)
(* the new log and cache.                                                  *)
(***************************************************************************)
deprecation_warning_nocheck(msg, logger, version, remove_in, calling_frame, stack, st) ==
    LET cf == IF calling_frame # NoFrame THEN calling_frame ELSE stack.f1
        from_frame == IF cf # NoFrame /\ StartsWithPyomo(cf.mod) THEN cf.mod ELSE "pyomo"
        logger_name == IF logger = "None" THEN from_frame ELSE logger
        body == default_deprecation_msg("None", msg, version, remove_in)
        frame == IF calling_frame = NoFrame THEN stack.f2 ELSE calling_frame
        full == [text |-> body.text, deprecated_in |-> body.deprecated_in,
                 removed_in |-> body.removed_in,
                 loc |-> IF frame # NoFrame THEN frame.loc ELSE ""]
        rec == [logger |-> logger_name, msg |-> full]
    IN  IF frame # NoFrame /\ st.emitted.enabled /\ full \in st.emitted.msgs
        THEN [outcome |-> "ok", log |-> st.log, emitted |-> st.emitted]
        ELSE [outcome |-> "ok",
              log |-> Append(st.log, rec),
              emitted |-> IF frame # NoFrame /\ st.emitted.enabled
                          THEN [st.emitted EXCEPT !.msgs = @ \cup {full}]
                          ELSE st.emitted]

\* A deprecation_warning that checks the version only after it has logged.
deprecation_warning_late_check(msg, logger, version, remove_in, calling_frame, stack, st) ==
    LET r == deprecation_warning_nocheck(msg, logger, version, remove_in,
                                         calling_frame, stack, st)
    IN  IF version = "None" THEN [r EXCEPT !.outcome = "DeveloperError"] ELSE r

deprecation_warning(msg, logger, version, remove_in, calling_frame, stack, st) ==
    IF version = "None"
    THEN [outcome |-> "DeveloperError", log |-> st.log, emitted |-> st.emitted]
    ELSE deprecation_warning_nocheck(msg, logger, version, remove_in,
                                     calling_frame, stack, st)

(***************************************************************************)
(* The import system.  An import first consults sys.modules; then the      *)
(* finders of sys.meta_path in order: the regular finders, which load the  *)
(* modules that are on disk, and last the MovedModuleFinder.               *)
(***************************************************************************)

\* The chain of find_spec calls started by MovedModuleFinder.find_spec(name):
\* importlib.util.find_spec(info.new_name) answers from sys.modules or from a
\* regular finder when it can, and otherwise asks MovedModuleFinder.find_spec
\* for the new name.  TRUE when the chain ends; FALSE when it runs into a
\* cycle of moved names (Python raises RecursionError).
RECURSIVE find_spec_returns(_, _, _, _)
find_spec_returns(fullname, map, sys, seen) ==
    IF fullname \notin DOMAIN map THEN TRUE
    ELSE LET new_name == map[fullname].new_name
         IN  IF new_name \in DOMAIN sys \/ new_name \in OnDisk THEN TRUE
             ELSE IF new_name \in seen \cup {fullname} THEN FALSE
             ELSE find_spec_returns(new_name, map, sys, seen \cup {fullname})

\* MovedModuleFinder.find_spec: "None" (not a moved name), "RecursionError",
\* or "spec" (a ModuleSpec whose loader is MovedModuleLoader(info)).
MovedModuleFinder_find_spec(fullname, map, sys) ==
    IF fullname \notin DOMAIN map THEN "None"
    ELSE IF ~find_spec_returns(fullname, map, sys, {}) THEN "RecursionError"
    ELSE "spec"

Ret(outcome, module, st) ==
    [outcome |-> outcome, module |-> module,
     sys |-> st.sys, log |-> st.log, emitted |-> st.emitted]

\* The stack seen from deprecation_warning when it is called by
\* MovedModuleLoader.create_module: the nearest frame outside deprecation.py
\* is importlib._bootstrap's, the next module out is the importer's.
ImportStack(frame) == [f1 |-> BootstrapFrame, f2 |-> frame]

RECURSIVE import_module(_, _, _, _)
RECURSIVE MovedModuleLoader_create_module(_, _, _, _)

\* A create_module that imports the new module but returns None, so that
\* importlib builds a module object of its own for the old name.
create_module_returns_None(name, frame, map, st) ==
    LET r == import_module(map[name].new_name, ImportlibFrame, map, st)
    IN  IF r.outcome = "ok" THEN [r EXCEPT !.module = name] ELSE r

\* MovedModuleLoader.create_module(spec), spec.name = name.
MovedModuleLoader_create_module(name, frame, map, st) ==
    LET info == map[name]
        msg == IF info.msg = NOTSET THEN <<"moved", name, info.new_name>> ELSE info.msg
        warned == IF msg # NoneMsg
                  THEN deprecation_warning(msg, info.logger, info.version,
                                           info.remove_in, NoFrame, ImportStack(frame), st)
                  ELSE [outcome |-> "ok", log |-> st.log, emitted |-> st.emitted]
        st1 == [sys |-> st.sys, log |-> warned.log, emitted |-> warned.emitted]
    IN  IF warned.outcome # "ok" THEN Ret(warned.outcome, NoModule, st1)
        ELSE IF info.new_name \in DOMAIN st1.sys
        THEN Ret("ok", st1.sys[info.new_name], st1)
        ELSE import_module(info.new_name, ImportlibFrame, map, st1)

\* importlib's import of `name` requested by the code running in `frame`.
import_module(name, frame, map, st) ==
    IF name \in DOMAIN st.sys THEN Ret("ok", st.sys[name], st)
    ELSE IF name \in OnDisk
    THEN Ret("ok", name, [st EXCEPT !.sys = Put(@, name, name)])
    ELSE LET found == MovedModuleFinder_find_spec(name, map, st.sys)
         IN  IF found = "None" THEN Ret("ModuleNotFoundError", NoModule, st)
             ELSE IF found = "RecursionError" THEN Ret("RecursionError", NoModule, st)
             ELSE LET made == MovedModuleLoader_create_module(name, frame, map, st)
                  IN  IF made.outcome # "ok" THEN made
                      ELSE [made EXCEPT !.sys = Put(@, name, made.module)]

(***************************************************************************)
(* The GAMS solver interfaces, pyomo/solvers/plugins/solvers/GAMS.py       *)
(***************************************************************************)
\* Bounds of the GAMS part
MaxSolves == 2      \* solves (symbol map ids) in one behaviour
MaxKw == 2          \* keyword arguments in one call of solve
MaxOptions == 1     \* keys set in self.options

\* Python truth of an option value
Truthy(v) == v \notin {"False", "None", ""}

\* dict.pop(k, default), the value only
Pop(d, k, default) == IF k \in DOMAIN d THEN d[k] ELSE default

\* GAMSSolver.__new__ reading solver_io with get instead of pop
GAMSSolver_new_keeps_solver_io(kwds) ==
    LET got == Pop(kwds, "solver_io", "shell")
        mode == IF got = "None" THEN "shell" ELSE got
    IN  IF mode = "direct" \/ mode = "python"
        THEN [solver |-> "_gams_direct", factory |-> <<kwds>>, errors |-> {}]
        ELSE IF mode = "shell" \/ mode = "gms"
        THEN [solver |-> "_gams_shell", factory |-> <<kwds>>, errors |-> {}]
        ELSE [solver |-> "None", factory |-> <<>>,
              errors |-> {<<"Unknown IO type: %s", mode>>}]

\* GAMSSolver.__new__(cls, **kwds): the solver name handed to SolverFactory,
\* the keywords forwarded with it, and what went to logger.error
GAMSSolver_new(kwds) ==
    LET popped == Pop(kwds, "solver_io", "shell")
        mode == IF popped = "None" THEN "shell" ELSE popped
        rest == Without(kwds, {"solver_io"})
    IN  IF mode = "direct" \/ mode = "python"
        THEN [solver |-> "_gams_direct", factory |-> <<rest>>, errors |-> {}]
        ELSE IF mode = "shell" \/ mode = "gms"
        THEN [solver |-> "_gams_shell", factory |-> <<rest>>, errors |-> {}]
        ELSE [solver |-> "None", factory |-> <<>>,
              errors |-> {<<"Unknown IO type: %s", mode>>}]

\* _GAMSSolver.set_options, for one key: setattr(self.options, key, val)
set_options(opts, key, val) == Put(opts, key, val)

\* the head of solve with the two updates swapped: self.options wins
solve_options_self_overrides(self_opts, kwds) ==
    LET options == Update(kwds, self_opts)
        popped == {"load_solutions", "tee", "logfile", "keepfiles", "tmpdir",
                   "report_timing", "io_options"}
        io_options == Pop(options, "io_options", EmptyDict)
    IN  [load_solutions |-> Pop(options, "load_solutions", "True"),
         tee            |-> Pop(options, "tee", "False"),
         logfile        |-> Pop(options, "logfile", "None"),
         keepfiles      |-> Pop(options, "keepfiles", "False"),
         tmpdir         |-> Pop(options, "tmpdir", "None"),
         report_timing  |-> Pop(options, "report_timing", "False"),
         io_options     |-> Update(io_options, Without(options, popped)),
         owner          |-> IF "io_options" \in DOMAIN self_opts THEN "self"
                            ELSE IF "io_options" \in DOMAIN kwds THEN "kwds"
                            ELSE "fresh"]

\* the head of both solve methods: self.options overridden by the keywords,
\* the seven keys popped, the rest merged into the io_options dict.
\* owner tells whose dict object io_options is, for it is updated in place.
solve_options(self_opts, kwds) ==
    LET options == Update(self_opts, kwds)
        popped == {"load_solutions", "tee", "logfile", "keepfiles", "tmpdir",
                   "report_timing", "io_options"}
        io_options == Pop(options, "io_options", EmptyDict)
    IN  [load_solutions |-> Pop(options, "load_solutions", "True"),
         tee            |-> Pop(options, "tee", "False"),
         logfile        |-> Pop(options, "logfile", "None"),
         keepfiles      |-> Pop(options, "keepfiles", "False"),
         tmpdir         |-> Pop(options, "tmpdir", "None"),
         report_timing  |-> Pop(options, "report_timing", "False"),
         io_options     |-> Update(io_options, Without(options, popped)),
         owner          |-> IF "io_options" \in DOMAIN kwds THEN "kwds"
                            ELSE IF "io_options" \in DOMAIN self_opts THEN "self"
                            ELSE "fresh"]

\* GAMSShell.solve: put_results is forced, put_results_format defaulted
shell_io_options(io_options, gdx) ==
    LET forced == Put(io_options, "put_results", "results")
    IN  IF "put_results_format" \in DOMAIN forced THEN forced
        ELSE Put(forced, "put_results_format", IF gdx THEN "gdx" ELSE "dat")

\* GAMSShell.solve: the four files of a solve, in the order they are removed
shell_filenames(io_options) ==
    IF io_options["put_results_format"] = "gdx"
    THEN <<"model.gms", "output.lst", "GAMS_MODEL_p.gdx", "results_s.gdx">>
    ELSE <<"model.gms", "output.lst", "results.dat", "resultsstat.dat">>

\* file_removal_gams_direct: the three files of a direct solve
direct_filenames ==
    <<"_gams_py_gjo0.gms", "_gams_py_gjo0.lst", "_gams_py_gdb0.gdx">>

\* ---- the file system -------------------------------------------------
TempNames == {"tmp1", "tmp2"}

\* tempfile.mkdtemp: a directory that did not exist
mkdtemp(fsys) == CHOOSE d \in TempNames : d \notin fsys.dirs

makedirs(fsys, d) == [fsys EXCEPT !.dirs = @ \cup {d}]

write_files(fsys, d, names) ==
    [fsys EXCEPT !.files = @ \cup {<<d, n>> : n \in names}]

rmtree(fsys, d) ==
    [dirs |-> fsys.dirs \ {d}, files |-> {f \in fsys.files : f[1] # d}]

\* a run of os.remove over names: the first missing file raises
RECURSIVE os_remove_each(_, _, _)
os_remove_each(fsys, d, names) ==
    IF names = <<>> THEN [fs |-> fsys, raised |-> FALSE]
    ELSE IF <<d, Head(names)>> \notin fsys.files THEN [fs |-> fsys, raised |-> TRUE]
    ELSE os_remove_each([fsys EXCEPT !.files = @ \ {<<d, Head(names)>>}],
                        d, Tail(names))

\* the finally block of GAMSShell.solve without the newdir test
shell_cleanup_rmtree(fsys, tmpdir, newdir, keepfiles, names) ==
    IF Truthy(keepfiles) THEN [fs |-> fsys, raised |-> FALSE]
    ELSE [fs |-> rmtree(fsys, tmpdir), raised |-> FALSE]

\* the finally block of GAMSShell.solve
shell_cleanup(fsys, tmpdir, newdir, keepfiles, names) ==
    IF Truthy(keepfiles) THEN [fs |-> fsys, raised |-> FALSE]
    ELSE IF newdir THEN [fs |-> rmtree(fsys, tmpdir), raised |-> FALSE]
    ELSE os_remove_each(fsys, tmpdir, names)

file_removal_gams_direct(fsys, tmpdir, newdir) ==
    IF newdir THEN [fs |-> rmtree(fsys, tmpdir), raised |-> FALSE]
    ELSE os_remove_each(fsys, tmpdir, direct_filenames)

\* the clean-up GAMSDirect.solve runs on every path
direct_cleanup(fsys, tmpdir, newdir, keepfiles) ==
    IF Truthy(keepfiles) THEN [fs |-> fsys, raised |-> FALSE]
    ELSE IF tmpdir # "None" THEN file_removal_gams_direct(fsys, tmpdir, newdir)
    ELSE [fs |-> fsys, raised |-> FALSE]

\* ---- the models that are solved ---------------------------------------
Models == {"concrete", "kernel"}
isIBlock(model) == model = "kernel"

\* the components of a model in declaration order, and what solve asks of them
Components == <<"c_eq", "c_rng", "c_free", "c_fix", "obj", "x", "y">>
ctype(c) ==
    IF c \in {"x", "y"} THEN "Var" ELSE IF c = "obj" THEN "Objective" ELSE "Constraint"
equality(c) == c = "c_eq"
has_lb(c) == c \in {"c_eq", "c_rng", "c_fix"}
has_ub(c) == c \in {"c_eq", "c_rng"}
body_is_fixed(c) == c = "c_fix"
has_dual_suffix(model) == model = "concrete"

\* ---- the symbol map of a write ----------------------------------------
NoSymbolMap == [byObject |-> EmptyDict, bySymbol |-> EmptyDict]

\* NumericLabeler(prefix): the n-th label it hands out
NumericLabel(prefix, n) ==
    IF prefix = "x" THEN <<"x1", "x2", "x3">>[n] ELSE <<"c1", "c2", "c3", "c4">>[n]

\* SymbolMap.getSymbol(obj, labeler): the symbol of obj, made on first use;
\* a label already given to another object is refused
getSymbol(smap, obj, label) ==
    IF obj \in DOMAIN smap.byObject THEN [smap |-> smap, raised |-> FALSE]
    ELSE IF label \in DOMAIN smap.bySymbol THEN [smap |-> smap, raised |-> TRUE]
    ELSE [smap |-> [byObject |-> Put(smap.byObject, obj, label),
                    bySymbol |-> Put(smap.bySymbol, label, obj)],
          raised |-> FALSE]

\* the component is written to the GAMS file
is_written(c) ==
    ctype(c) # "Constraint" \/ (~body_is_fixed(c) /\ (has_lb(c) \/ has_ub(c)))

\* the writer labels every written component: variables with the 'x'
\* labeler, the objective and the constraints with the 'c' labeler
RECURSIVE write_symbols(_, _, _, _)
write_symbols(smap, comps, nx, nc) ==
    IF comps = <<>> THEN [smap |-> smap, raised |-> FALSE]
    ELSE LET c == Head(comps)
             isvar == ctype(c) = "Var"
             got == getSymbol(smap, c, NumericLabel(IF isvar THEN "x" ELSE "c",
                                                    IF isvar THEN nx ELSE nc))
         IN  IF ~is_written(c) THEN write_symbols(smap, Tail(comps), nx, nc)
             ELSE IF got.raised THEN got
             ELSE write_symbols(got.smap, Tail(comps),
                                IF isvar THEN nx + 1 ELSE nx,
                                IF isvar THEN nc ELSE nc + 1)

\* the symbol map the writer builds for a model
written_symbols == write_symbols(NoSymbolMap, Components, 1, 1)

\* model.write(format=gams): the symbol map is stored on the model under
\* its id, which is returned
model_write(model, smaps, id) ==
    LET w == written_symbols
    IN  [raised |-> w.raised, smap |-> w.smap,
         smaps |-> IF w.raised THEN smaps
                   ELSE [smaps EXCEPT ![model] = Put(@, id, w.smap)]]

\* the read-back looking every constraint up under the symbol of the first
read_solution_one_symbol(model, symbolMap) ==
    LET syms == DOMAIN symbolMap.bySymbol
        objective == {s \in syms : ctype(symbolMap.bySymbol[s]) = "Objective"}
        variable == {s \in syms : ctype(symbolMap.bySymbol[s]) = "Var"}
        cons == IF has_dual_suffix(model) THEN {"c_eq", "c_rng"} ELSE {}
        symbol_of(c) == symbolMap.byObject["c_eq"]
    IN  [variable |-> variable,
         objective |-> objective,
         constraint |-> {symbol_of(c) : c \in cons},
         reads |-> {<<<<s, "">>, symbolMap.bySymbol[s]>> : s \in variable}
                   \cup {<<<<symbol_of(c), "">>, c>> : c \in {d \in cons : equality(d)}}
                   \cup {<<<<symbol_of(c), "_lo">>, c>> :
                            c \in {d \in cons : ~equality(d) /\ has_lb(d)}}
                   \cup {<<<<symbol_of(c), "_hi">>, c>> :
                            c \in {d \in cons : ~equality(d) /\ has_ub(d)}}]

\* ---- reading the solution back ----------------------------------------
\* the loop over symbolMap.bySymbol, then the constraints when duals are
\* imported.  reads holds every solver record looked up, as (symbol, suffix),
\* with the component it is read for.
read_solution(model, symbolMap) ==
    LET syms == DOMAIN symbolMap.bySymbol
        objective == {s \in syms : ctype(symbolMap.bySymbol[s]) = "Objective"}
        variable == {s \in syms : ctype(symbolMap.bySymbol[s]) = "Var"}
        cons == IF has_dual_suffix(model)
                THEN {Components[i] : i \in {j \in DOMAIN Components :
                         /\ ctype(Components[j]) = "Constraint"
                         /\ ~(body_is_fixed(Components[j])
                              \/ ~(has_lb(Components[j]) \/ has_ub(Components[j])))}}
                ELSE {}
        \* symbolMap.getSymbol(c) without a labeler: the symbol c was given
        symbol_of(c) == symbolMap.byObject[c]
    IN  [variable |-> variable,
         objective |-> objective,
         constraint |-> {symbol_of(c) : c \in cons},
         reads |-> {<<<<s, "">>, symbolMap.bySymbol[s]>> : s \in variable}
                   \cup {<<<<symbol_of(c), "">>, c>> : c \in {d \in cons : equality(d)}}
                   \cup {<<<<symbol_of(c), "_lo">>, c>> :
                            c \in {d \in cons : ~equality(d) /\ has_lb(d)}}
                   \cup {<<<<symbol_of(c), "_hi">>, c>> :
                            c \in {d \in cons : ~equality(d) /\ has_ub(d)}}]

\* the status solve derives from SOLVESTAT
solver_status(solvestat) ==
    IF solvestat \in {1, 2, 3, 5} THEN "ok"
    ELSE IF solvestat \in {7, 8} THEN "aborted"
    ELSE IF solvestat \in {10, 11, 9, 12, 13} THEN "error"
    ELSE IF solvestat = 4 THEN "warning"
    ELSE "unknown"

NoResults ==
    [solution |-> <<>>, has_smap_id |-> FALSE, smap_id |-> <<>>, smap |-> <<>>,
     status |-> "none"]

\* model.solutions.load_from(results): a bad solver status is refused;
\* otherwise the values are set and the symbol map is deleted from the model
load_from(model, res, smaps, values) ==
    IF res.status \notin {"ok", "warning"}
    THEN [raised |-> TRUE, smaps |-> smaps, values |-> values]
    ELSE [raised |-> FALSE,
          smaps |-> [smaps EXCEPT ![model] = Without(@, {res.smap_id[1]})],
          values |-> [values EXCEPT ![model] = res.solution[1].id]]

\* "Finish with results" with the two branches of load_solutions swapped
finish_with_results_swapped(model, load_solutions, soln, status, smap_id, smaps, values) ==
    LET res0 == [solution |-> <<soln>>, has_smap_id |-> TRUE, smap_id |-> <<smap_id>>,
                 smap |-> <<>>, status |-> status]
    IN  IF ~Truthy(load_solutions)
        THEN [outcome |-> "ok",
              results |-> [res0 EXCEPT !.smap_id = <<>>, !.solution = <<>>],
              smaps |-> [smaps EXCEPT ![model] = Without(@, {smap_id})],
              values |-> [values EXCEPT ![model] = soln.id]]
        ELSE [outcome |-> "ok",
              results |-> [res0 EXCEPT !.smap = <<smaps[model][smap_id]>>],
              smaps |-> [smaps EXCEPT ![model] = Without(@, {smap_id})],
              values |-> values]

\* "Finish with results", the same in both solve methods
finish_with_results(model, load_solutions, soln, status, smap_id, smaps, values) ==
    LET res0 == [solution |-> <<soln>>, has_smap_id |-> TRUE, smap_id |-> <<smap_id>>,
                 smap |-> <<>>, status |-> status]
    IN  IF isIBlock(model)
        THEN LET sol0 == [soln EXCEPT !.symbol_map = <<smaps[model][smap_id]>>]
                 loaded == IF Truthy(load_solutions)
                           THEN [values EXCEPT ![model] = soln.id] ELSE values
             IN  IF Cardinality(DOMAIN smaps[model]) # 1
                 THEN [outcome |-> "AssertionError", results |-> res0,
                       smaps |-> smaps, values |-> loaded]
                 ELSE [outcome |-> "ok",
                       results |-> [res0 EXCEPT !.solution = <<sol0>>,
                                                !.has_smap_id = FALSE,
                                                !.smap_id = <<>>],
                       smaps |-> [smaps EXCEPT ![model] = EmptyDict],
                       values |-> loaded]
        ELSE IF Truthy(load_solutions)
        THEN LET l == load_from(model, res0, smaps, values)
             IN  IF l.raised
                 THEN [outcome |-> "ValueError", results |-> res0,
                       smaps |-> smaps, values |-> values]
                 ELSE [outcome |-> "ok",
                       results |-> [res0 EXCEPT !.smap_id = <<>>, !.solution = <<>>],
                       smaps |-> l.smaps, values |-> l.values]
        ELSE [outcome |-> "ok",
              results |-> [res0 EXCEPT !.smap = <<smaps[model][smap_id]>>],
              smaps |-> [smaps EXCEPT ![model] = Without(@, {smap_id})],
              values |-> values]

\* what a run of GAMS did: its return code, the files it left (all of
\* them, the listing only, none), whether an expression of the model fails
\* to evaluate at the initial values, and the SOLVESTAT it reported
Run(rc, made, expr_error, solvestat) ==
    [rc |-> rc, made |-> made, expr_error |-> expr_error, solvestat |-> solvestat]

NoLast ==
    [op |-> "init", kind |-> "", model |-> "", kwds |-> EmptyDict,
     self_before |-> EmptyDict, factory |-> <<>>, io |-> EmptyDict,
     tmpdir |-> "None", existed |-> FALSE, newdir |-> FALSE,
     keepfiles |-> "False", load_solutions |-> "True", popped |-> EmptyDict,
     outcome |-> "", logged |-> {}, smap_id |-> 0, smap |-> NoSymbolMap,
     reads |-> {}]

\* the Solution object solve fills from the records it reads
Solution(id, read) ==
    [id |-> id, variable |-> read.variable, objective |-> read.objective,
     constraint |-> read.constraint, symbol_map |-> <<>>]

SolveError ==
    <<"GAMS encountered an error during solve. Check listing file for details.", "">>

\* what a solve leaves behind: r gives outcome, fs, smaps, values, results,
\* errors; the rest is the record of the call
SolveResult(kind, model, kwds, o, io, existed, newdir, w, read, r) ==
    [outcome |-> r.outcome, fs |-> r.fs, smaps |-> r.smaps, values |-> r.values,
     results |-> r.results, errors |-> r.errors,
     self_options |-> IF o.owner = "self" THEN Put(self_options, "io_options", io)
                      ELSE self_options,
     last |-> [op |-> "solve", kind |-> kind, model |-> model, kwds |-> kwds,
               self_before |-> self_options, factory |-> <<>>, io |-> io,
               tmpdir |-> o.tmpdir, existed |-> existed, newdir |-> newdir,
               keepfiles |-> o.keepfiles, load_solutions |-> o.load_solutions,
               popped |-> [load_solutions |-> o.load_solutions, tee |-> o.tee,
                           logfile |-> o.logfile, keepfiles |-> o.keepfiles,
                           tmpdir |-> o.tmpdir, report_timing |-> o.report_timing],
               outcome |-> r.outcome, logged |-> r.errors, smap_id |-> next_id,
               smap |-> w.smap, reads |-> read]]

Raised(outcome, fsys, smaps, errors) ==
    [outcome |-> outcome, fs |-> fsys, smaps |-> smaps, values |-> model_values,
     results |-> results, errors |-> errors]

Finished(fin, fsys) ==
    [outcome |-> fin.outcome, fs |-> fsys, smaps |-> fin.smaps, values |-> fin.values,
     results |-> IF fin.outcome = "ok" THEN fin.results ELSE results, errors |-> {}]

\* GAMSShell.solve(model, **kwds)
GAMSShell_solve(model, kwds, run) ==
    LET o == solve_options(self_options, kwds)
        existed == o.tmpdir # "None" /\ o.tmpdir \in fs.dirs
        newdir == IF o.tmpdir = "None" THEN TRUE
                  ELSE IF o.tmpdir \notin fs.dirs THEN TRUE ELSE FALSE
        tmpdir == IF o.tmpdir = "None" THEN mkdtemp(fs) ELSE o.tmpdir
        fs1 == IF newdir THEN makedirs(fs, tmpdir) ELSE fs
        io == shell_io_options(o.io_options, gdxcc_available)
        names == shell_filenames(io)
        w == model_write(model, model_smaps, next_id)
        fs2 == write_files(fs1, tmpdir, {names[1]})
        made == IF run.made = "all" THEN {names[2], names[3], names[4]}
                ELSE IF run.made = "lst" THEN {names[2]} ELSE {}
        fs3 == write_files(fs2, tmpdir, made)
        \* the try block: the return code, then the parse of the results
        tried == IF run.rc = 1 \/ run.rc = 127 THEN "OSError"
                 ELSE IF run.rc # 0
                 THEN IF run.rc = 3 /\ run.expr_error THEN "ValueError"
                      ELSE "RuntimeError"
                 ELSE IF io["put_results_format"] = "gdx"
                 THEN IF gdxcc_available THEN "ok" ELSE "DeferredImportError"
                 ELSE IF {<<tmpdir, names[3]>>, <<tmpdir, names[4]>>} \subseteq fs3.files
                 THEN "ok" ELSE "FileNotFoundError"
        cleaned == shell_cleanup(fs3, tmpdir, newdir, o.keepfiles, names)
        read == read_solution(model, w.smap)
        fin == finish_with_results(model, o.load_solutions, Solution(next_id, read),
                                   solver_status(run.solvestat), next_id,
                                   w.smaps, model_values)
        r == IF w.raised THEN Raised("RuntimeError", fs1, model_smaps, {})
             ELSE IF cleaned.raised THEN Raised("FileNotFoundError", cleaned.fs, w.smaps, {})
             ELSE IF tried # "ok"
             THEN Raised(tried, cleaned.fs, w.smaps,
                         IF tried = "RuntimeError" THEN {SolveError} ELSE {})
             \* stat_vars is all None when the gdx files are missing
             ELSE IF run.made # "all" THEN Raised("TypeError", cleaned.fs, w.smaps, {})
             ELSE Finished(fin, cleaned.fs)
    IN  SolveResult("shell", model, kwds, o, io, existed, newdir, w,
                    IF r.outcome = "ok" THEN read.reads ELSE {}, r)

\* GAMSDirect.solve(model, **kwds)
GAMSDirect_solve(model, kwds, run) ==
    LET o == solve_options(self_options, kwds)
        io == o.io_options
        w == model_write(model, model_smaps, next_id)
        existed == o.tmpdir # "None" /\ o.tmpdir \in fs.dirs
        newdir == IF o.tmpdir # "None" /\ o.tmpdir \in fs.dirs THEN FALSE ELSE TRUE
        names == direct_filenames
        \* GamsWorkspace makes the working directory; with tmpdir None it
        \* works in a directory of its own, which solve never removes
        fs1 == IF o.tmpdir = "None" THEN fs ELSE makedirs(fs, o.tmpdir)
        made == (IF run.made = "all" THEN {names[1], names[2], names[3]}
                 ELSE IF run.made = "lst" THEN {names[1], names[2]} ELSE {names[1]})
                \cup (IF Truthy(o.keepfiles) THEN {"_gams_py_gjo0.pf"} ELSE {})
        fs3 == IF o.tmpdir = "None" THEN fs1 ELSE write_files(fs1, o.tmpdir, made)
        ran == IF run.rc = 0 THEN "ok"
               ELSE IF run.rc = 3 THEN "GamsExceptionExecution" ELSE "GamsException"
        cleaned == direct_cleanup(fs3, o.tmpdir, newdir, o.keepfiles)
        read == read_solution(model, w.smap)
        fin == finish_with_results(model, o.load_solutions, Solution(next_id, read),
                                   solver_status(run.solvestat), next_id,
                                   w.smaps, model_values)
        r == IF w.raised THEN Raised("RuntimeError", fs, model_smaps, {})
             ELSE IF cleaned.raised THEN Raised("FileNotFoundError", cleaned.fs, w.smaps, {})
             ELSE IF ran # "ok" THEN Raised(ran, cleaned.fs, w.smaps, {})
             ELSE Finished(fin, cleaned.fs)
    IN  SolveResult("direct", model, kwds, o, io, existed, newdir, w,
                    IF r.outcome = "ok" THEN read.reads ELSE {}, r)

\* ---- inputs of the GAMS part -------------------------------------------
IoA == [warmstart |-> "False"]
IoB == [solver |-> "conopt", put_results |-> "mine"]

\* the values a keyword takes
KwValues ==
    [load_solutions |-> {"True", "False"}, keepfiles |-> {"True"},
     tmpdir |-> {"work"}, tee |-> {"True"}, logfile |-> {"gams.log"},
     report_timing |-> {"True"}, warmstart |-> {"True"},
     put_results |-> {"mine"}, put_results_format |-> {"dat"},
     io_options |-> {IoA, IoB}]

\* every dict over exactly the keys K
RECURSIVE DictsOver(_)
DictsOver(K) ==
    IF K = {} THEN {EmptyDict}
    ELSE LET k == CHOOSE x \in K : TRUE
         IN  {Put(d, k, v) : d \in DictsOver(K \ {k}), v \in KwValues[k]}

\* every dict over at most n of the keys
KwDicts(keys, n) ==
    UNION {DictsOver(K) : K \in {S \in SUBSET keys : Cardinality(S) <= n}}

OptionKeys == DOMAIN KwValues
FileKeys == {"tmpdir", "keepfiles", "load_solutions", "put_results_format"}
SelfOptionKeys == {"load_solutions", "warmstart", "put_results", "io_options"}
OptionKwds == KwDicts(OptionKeys, MaxKw)
FileKwds == KwDicts(FileKeys, MaxKw)

SolverIoValues == {"None", "direct", "python", "shell", "gms", "nl"}
NewKwds ==
    {EmptyDict, [validate |-> "True"]}
    \cup {[solver_io |-> v] : v \in SolverIoValues}
    \cup {[solver_io |-> v, validate |-> "True"] : v \in {"python", "nl"}}

OkRun == Run(0, "all", FALSE, 1)
ShellRuns ==
    {OkRun, Run(0, "all", FALSE, 10), Run(0, "lst", FALSE, 1), Run(1, "none", FALSE, 1),
     Run(3, "lst", TRUE, 1), Run(2, "lst", FALSE, 1)}
DirectRuns ==
    {OkRun, Run(0, "all", FALSE, 10), Run(3, "lst", TRUE, 1), Run(2, "lst", FALSE, 1),
     Run(1, "none", FALSE, 1)}

UserDirs == {"work"}
UserFiles == {"notes.txt", "output.lst"}

\* ---- actions of the GAMS part ------------------------------------------
\* A behaviour ends with its last solve: what is built or written after it
\* is never used, so every action is guarded by next_id <= MaxSolves.
\* The model of test_baron before anything is declared on it.
NoWrite == [written |-> FALSE, model |-> <<>>, io_options |-> EmptyDict, rows |-> <<>>]

BarIdle ==
    /\ bar_model = <<>>
    /\ bar_file = <<>>
    /\ bar_ref = NoWrite
    /\ bar_last = NoWrite

(***************************************************************************)
(* What the BARON writer refuses to write, driven as test_baron.py drives  *)
(* it: the objective and the constraint of the model are a unary function  *)
(* of a variable, or the plain variable (""), and the model holds EXPORT   *)
(* suffixes with a value for x and for y.                                  *)
(***************************************************************************)
UnaryFunctions == {"sin", "cos", "exp", "log"}
SupportedUnary == {"exp", "log"}
SuffixNames == {"priority", "priorities"}
ExportableSuffixes == {"priority"}

\* m = ConcreteModel() with the variables, m.c and m.obj of the tests
EmptyBwModel == [obj |-> "", con |-> "", suffixes |-> EmptyDict]

NoBarFile == [written |-> FALSE, obj |-> "", con |-> "", priorities |-> EmptyDict]

bar_functions(model) == {model.obj, model.con} \ {""}

\* a writer that writes any unary function
no_unary_errors(model) == {}

\* the unary functions the .BAR format does not have
unary_errors(model) ==
    {[error |-> "RuntimeError",
      message |-> <<"The BARON .BAR format does not support the unary function", f>>,
      file |-> NoBarFile] : f \in bar_functions(model) \ SupportedUnary}

\* a writer that passes over the suffixes it cannot export
no_suffix_errors(model) == {}

\* the EXPORT suffixes the writer cannot export
suffix_errors(model) ==
    {[error |-> "ValueError",
      message |-> <<"The BARON writer can not export suffix with name", n>>,
      file |-> NoBarFile] : n \in (DOMAIN model.suffixes) \ ExportableSuffixes}

\* m.write(..., format="bar"): the outcomes the write can have.  A model
\* with several faults raises for one of them; which one is not fixed here.
bar_write_outcomes(model) ==
    LET errors == unary_errors(model) \cup suffix_errors(model)
    IN  IF errors # {} THEN errors
        ELSE {[error |-> "", message |-> <<"", "">>,
               file |-> [written |-> TRUE, obj |-> model.obj, con |-> model.con,
                         priorities |-> IF "priority" \in DOMAIN model.suffixes
                                        THEN model.suffixes["priority"]
                                        ELSE EmptyDict]]}

NoBwLast == [op |-> "init", error |-> "", message |-> <<"", "">>, file |-> NoBarFile]

BwIdle ==
    /\ bw_model = EmptyBwModel
    /\ bw_last = NoBwLast

\* no decoration yet
NoDecLast ==
    [op |-> "init", name |-> "", kind |-> "", flagged |-> FALSE, msg |-> NoneMsg,
     version |-> "", outcome |-> "", arg |-> 0, frame |-> NoFrame, events |-> <<>>,
     result |-> <<>>]

DecIdle ==
    /\ decorated = EmptyDict
    /\ dec_last = NoDecLast

(***************************************************************************)
(* The persistent Highs solver, driven as test_highs_persistent.py drives  *)
(* it.  The model is the one of the tests brought to a small integer box:  *)
(*     min y   s.t.  c1: y >= x + p1,  c2: y >= -x + p2,                   *)
(*                   XLo <= x <= XHi,  plb <= y <= YHi                     *)
(* p1, p2 and plb are mutable parameters, plb is the lower bound of y,     *)
(* and x and y can be fixed.                                               *)
(***************************************************************************)
XLo == -2
XHi == 2
YLo == -3
YHi == 4
ParamValues == [p1 |-> {1, 2}, p2 |-> {1, 2}, plb |-> {-3, -2}]
HighsVars == {"x", "y"}
HighsCons == {"c1", "c2"}
Free == <<>>

\* the model as the tests build it, before any change
test_model ==
    [cons |-> HighsCons,
     params |-> [p1 |-> 1, p2 |-> 1, plb |-> -3],
     fixed |-> [x |-> Free, y |-> Free]]

\* the bounds a variable has in the model: a fixed variable has its value
\* for both bounds
var_bounds(params, fixed) ==
    [x |-> IF fixed.x # Free THEN <<fixed.x[1], fixed.x[1]>> ELSE <<XLo, XHi>>,
     y |-> IF fixed.y # Free THEN <<fixed.y[1], fixed.y[1]>> ELSE <<params.plb, YHi>>]

\* the rows of the constraints, with the parameter values in them
con_holds(c, params, x, y) ==
    IF c = "c1" THEN y >= x + params.p1 ELSE y >= (0 - x) + params.p2

\* what Highs holds before a model is given to it
NotLoaded ==
    [loaded |-> FALSE, cons |-> {}, params |-> test_model.params,
     bounds |-> var_bounds(test_model.params, test_model.fixed),
     fixed |-> test_model.fixed]

\* set_instance: load the whole model
set_instance(model) ==
    [loaded |-> TRUE, cons |-> model.cons, params |-> model.params,
     bounds |-> var_bounds(model.params, model.fixed), fixed |-> model.fixed]

\* update, step by step: constraints that left the model are removed
remove_constraints(o, model) == [o EXCEPT !.cons = @ \cap model.cons]

\* update: constraints new to the model are added
add_constraints(o, model) == [o EXCEPT !.cons = @ \cup model.cons]

\* update: the current values of the mutable parameters are taken
update_params(o, model) == [o EXCEPT !.params = model.params]

\* an update of the variables that keeps a variable fixed once it was fixed
update_variables_keeps_fixed(o, model) ==
    LET fixed == [v \in HighsVars |->
                     IF o.fixed[v] # Free THEN o.fixed[v] ELSE model.fixed[v]]
    IN  [o EXCEPT !.fixed = fixed, !.bounds = var_bounds(o.params, fixed)]

\* update: fixed status and bounds of the variables are taken from the model
update_variables(o, model) ==
    [o EXCEPT !.fixed = model.fixed, !.bounds = var_bounds(o.params, model.fixed)]

\* an update that forgets to take constraints out
update_without_removal(o, model) ==
    update_variables(update_params(add_constraints(o, model), model), model)

\* update(): bring what the solver holds to the model as it is now
update(o, model) ==
    update_variables(
        update_params(add_constraints(remove_constraints(o, model), model), model),
        model)

Feasible(o) ==
    {pt \in [x : XLo..XHi, y : YLo..YHi] :
        /\ o.bounds.x[1] <= pt.x /\ pt.x <= o.bounds.x[2]
        /\ o.bounds.y[1] <= pt.y /\ pt.y <= o.bounds.y[2]
        /\ \A c \in o.cons : con_holds(c, o.params, pt.x, pt.y)}

Infeasible == [termination |-> "infeasible", objective |-> 0, x |-> 0, y |-> 0]

\* the optimum of what the solver holds: the least y, and of the points
\* with that y the one with the least x
optimize(o) ==
    LET F == Feasible(o)
    IN  IF F = {} THEN Infeasible
        ELSE LET best == CHOOSE pt \in F :
                            \A q \in F : pt.y < q.y \/ (pt.y = q.y /\ pt.x <= q.x)
             IN  [termination |-> "optimal", objective |-> best.y,
                  x |-> best.x, y |-> best.y]

\* opt.solve(m): load the model the first time, update afterwards, optimise
Highs_solve(o, model) ==
    LET held == IF o.loaded THEN update(o, model) ELSE set_instance(model)
    IN  [opt |-> held, res |-> optimize(held)]

\* no Highs solver at work
\* before: what the solver held when the operation began
NoHighsLast == [op |-> "init", res |-> Infeasible, before |-> NotLoaded]

HighsIdle ==
    /\ h_model = test_model
    /\ h_opt = NotLoaded
    /\ h_last = NoHighsLast

InitGams ==
    /\ solver = "unset"
    /\ self_options = EmptyDict
    /\ gdxcc_available \in BOOLEAN
    /\ fs = [dirs |-> {}, files |-> {}]
    /\ model_smaps = [m \in Models |-> EmptyDict]
    /\ model_values = [m \in Models |-> 0]
    /\ results = NoResults
    /\ solver_log = {}
    /\ next_id = 1
    /\ gams_last = NoLast

\* The GAMS part before any solver is built (and while it is left alone).
GamsIdle ==
    InitGams /\ gdxcc_available

DepIdle ==
    /\ mapping = EmptyDict
    /\ sys_modules = EmptyDict
    /\ log = <<>>
    /\ emitted_warnings = [enabled |-> TRUE, msgs |-> {}]
    /\ dep_last = [op |-> "init", name |-> "", outcome |-> "ok", module |-> "NoModule",
                   version |-> "", cached |-> FALSE, n_logged |-> 0, n_cached |-> 0]

\* solver = GAMSSolver(**kwds), or SolverFactory('gams', **kwds)
New(kwds) ==
    LET r == GAMSSolver_new(kwds)
    IN  /\ next_id <= MaxSolves
        /\ solver' = r.solver
        /\ self_options' = EmptyDict
        /\ solver_log' = solver_log \cup r.errors
        /\ gams_last' = [NoLast EXCEPT !.op = "new", !.kwds = kwds,
                                       !.factory = r.factory, !.outcome = r.solver,
                                       !.logged = r.errors]
        /\ UNCHANGED <<gdxcc_available, fs, model_smaps, model_values, results,
                       next_id, dep_vars, bar_vars, dec_vars, highs_vars, bw_vars>>

\* solver.set_options({key: val}); a value of None is skipped
SetOption(key, val) ==
    /\ solver \in {"_gams_shell", "_gams_direct"}
    /\ next_id <= MaxSolves
    /\ IF key = "io_options" THEN TRUE ELSE val # "None"
    /\ Cardinality(DOMAIN self_options \cup {key}) <= MaxOptions
    /\ self_options' = set_options(self_options, key, val)
    /\ gams_last' = [NoLast EXCEPT !.op = "set_options"]
    /\ UNCHANGED <<solver, gdxcc_available, fs, model_smaps, model_values, results,
                   solver_log, next_id, dep_vars, bar_vars, dec_vars, highs_vars, bw_vars>>

\* the caller makes a directory, or puts a file of their own in one
UserMkdir(d) ==
    /\ next_id <= MaxSolves
    /\ d \notin fs.dirs
    /\ fs' = makedirs(fs, d)
    /\ gams_last' = [NoLast EXCEPT !.op = "user"]
    /\ UNCHANGED <<solver, self_options, gdxcc_available, model_smaps, model_values,
                   results, solver_log, next_id, dep_vars, bar_vars, dec_vars, highs_vars, bw_vars>>

UserWrite(d, f) ==
    /\ next_id <= MaxSolves
    /\ d \in fs.dirs
    /\ <<d, f>> \notin fs.files
    /\ fs' = write_files(fs, d, {f})
    /\ gams_last' = [NoLast EXCEPT !.op = "user"]
    /\ UNCHANGED <<solver, self_options, gdxcc_available, model_smaps, model_values,
                   results, solver_log, next_id, dep_vars, bar_vars, dec_vars, highs_vars, bw_vars>>

Solved(r) ==
    /\ fs' = r.fs
    /\ self_options' = r.self_options
    /\ model_smaps' = r.smaps
    /\ model_values' = r.values
    /\ results' = r.results
    /\ solver_log' = solver_log \cup r.errors
    /\ next_id' = next_id + 1
    /\ gams_last' = r.last
    /\ UNCHANGED <<solver, gdxcc_available, dep_vars, bar_vars, dec_vars, highs_vars, bw_vars>>

ShellSolve(model, kwds, run) ==
    /\ solver = "_gams_shell"
    /\ next_id <= MaxSolves
    /\ \E d \in TempNames : d \notin fs.dirs
    /\ \E r \in {GAMSShell_solve(model, kwds, run)} : Solved(r)

DirectSolve(model, kwds, run) ==
    /\ solver = "_gams_direct"
    /\ next_id <= MaxSolves
    /\ \E r \in {GAMSDirect_solve(model, kwds, run)} : Solved(r)

\* solves with every run of GAMS, in directories the caller also uses
NextGams ==
    \/ \E kwds \in {EmptyDict, [solver_io |-> "direct"]} : New(kwds)
    \/ \E d \in UserDirs : UserMkdir(d)
    \/ \E d \in UserDirs, f \in UserFiles : UserWrite(d, f)
    \/ \E model \in Models, kwds \in FileKwds, run \in ShellRuns :
          ShellSolve(model, kwds, run)
    \/ \E model \in Models, kwds \in FileKwds, run \in DirectRuns :
          DirectSolve(model, kwds, run)

InitGamsOnly == InitGams /\ DepIdle /\ BarIdle /\ DecIdle /\ HighsIdle /\ BwIdle

SpecGams == InitGamsOnly /\ [][NextGams]_vars

\* the construction of a solver and the options of its solves
NextGamsOptions ==
    \/ \E kwds \in NewKwds : New(kwds)
    \/ \E key \in SelfOptionKeys : \E val \in KwValues[key] : SetOption(key, val)
    \/ \E kwds \in OptionKwds : ShellSolve("concrete", kwds, OkRun)
    \/ \E kwds \in OptionKwds : DirectSolve("concrete", kwds, OkRun)

SpecGamsOptions == InitGamsOnly /\ [][NextGamsOptions]_vars

(***************************************************************************)
(* The BARON writer as pyomo/repn/tests/baron/test_baron.py drives it      *)
(***************************************************************************)
MaxComponents == 3   \* components declared on the model at one time

\* the objective and the constraints of test_no_row_ordering
BarNames == {"obj", "con1", "con2", "con4"}

is_objective(c) == c = "obj"

\* the rows a component gives, in the order of its index set
component_rows(c) == IF c = "con4" THEN <<"con4[1]", "con4[2]">> ELSE <<c>>

\* the component names in alphabetical order
AlphabeticalNames == <<"con1", "con2", "con4", "obj">>

RECURSIVE select(_, _)
select(seq, S) ==
    IF seq = <<>> THEN <<>>
    ELSE IF Head(seq) \in S THEN <<Head(seq)>> \o select(Tail(seq), S)
    ELSE select(Tail(seq), S)

Range(seq) == {seq[i] : i \in DOMAIN seq}

RECURSIVE rows_of(_)
rows_of(comps) ==
    IF comps = <<>> THEN <<>> ELSE component_rows(Head(comps)) \o rows_of(Tail(comps))

\* the writer with file_determinism taken for 1 whatever was asked
baron_write_as_declared(model, io_options) ==
    rows_of(select(model, {c \in BarNames : ~is_objective(c)}))
    \o rows_of(select(model, {c \in BarNames : is_objective(c)}))

\* model.write(format="bar", io_options): the equations and then the
\* objective; components are walked as declared, or by name when
\* file_determinism is 2 or more
baron_write(model, io_options) ==
    LET order == IF io_options["file_determinism"] >= 2
                 THEN select(AlphabeticalNames, Range(model))
                 ELSE model
    IN  rows_of(select(order, {c \in BarNames : ~is_objective(c)}))
        \o rows_of(select(order, {c \in BarNames : is_objective(c)}))

\* Test._check_baseline(model, **kwds), up to the write
check_baseline_options(kwds) ==
    Update([symbolic_solver_labels |-> 1, file_determinism |-> 1], kwds)

\* model.add_component(key, components[key])
add_component(key) ==
    /\ key \notin Range(bar_model)
    /\ Len(bar_model) < MaxComponents
    /\ bar_model' = Append(bar_model, key)
    /\ bar_last' = NoWrite
    /\ UNCHANGED <<bar_file, bar_ref, dep_vars, gams_vars, dec_vars, highs_vars, bw_vars>>

\* model = ConcreteModel(): a test starts from a model with nothing declared
ConcreteModel ==
    /\ bar_model # <<>>
    /\ bar_model' = <<>>
    /\ bar_last' = NoWrite
    /\ UNCHANGED <<bar_file, bar_ref, dep_vars, gams_vars, dec_vars, highs_vars, bw_vars>>

\* self._check_baseline(model, **kwds); the file may be kept as a reference
check_baseline(kwds, keep) ==
    LET io_options == check_baseline_options(kwds)
        rows == baron_write(bar_model, io_options)
        this == [written |-> TRUE, model |-> bar_model, io_options |-> io_options,
                 rows |-> rows]
    IN  /\ "obj" \in Range(bar_model)
        /\ bar_file' = rows
        /\ bar_last' = this
        /\ bar_ref' = IF keep THEN this ELSE bar_ref
        /\ UNCHANGED <<bar_model, dep_vars, gams_vars, dec_vars, highs_vars, bw_vars>>

NextBaron ==
    \/ \E key \in BarNames : add_component(key)
    \/ ConcreteModel
    \/ \E kwds \in {EmptyDict, [file_determinism |-> 2]}, keep \in BOOLEAN :
          check_baseline(kwds, keep)

InitBaron == BarIdle /\ DepIdle /\ GamsIdle /\ DecIdle /\ HighsIdle /\ BwIdle

SpecBaron == InitBaron /\ [][NextBaron]_vars

(***************************************************************************)
(* The @deprecated decorator of deprecation.py                             *)
(***************************************************************************)
\* the objects that get decorated.  flagged: the docstring of the class's
\* __new__, __init__ or __new_member__ already holds the ".. deprecated::"
\* flag, as when __init__ comes from a deprecated base class.
Target(name, kind, flagged) == [name |-> name, kind |-> kind, flagged |-> flagged]

Targets ==
    {Target("f", "function", FALSE), Target("C.m", "method", FALSE),
     Target("A", "class", FALSE), Target("B", "class", TRUE)}

\* what the decorated functions compute
func(name, arg) == IF name = "f" THEN 2 * arg ELSE arg + 1

\* the string default_deprecation_msg returns, as one message value: the
\* text with the "deprecated in" comment (remove_in is None throughout)
as_message(m) == <<m.text[1], m.text[2], m.deprecated_in>>

\* _deprecation_docstring(obj, msg, version, remove_in)
deprecation_docstring(obj, msg, version, remove_in) ==
    IF version = "None"
    THEN [raised |-> TRUE, doc |-> <<>>]
    ELSE [raised |-> FALSE,
          doc |-> <<version, as_message(default_deprecation_msg(obj, msg, "None",
                                                                 remove_in))>>]

NoWrapper == [wraps |-> "", message |-> NoneMsg, logger |-> "None", doc |-> <<>>]

\* _wrap_func(func, msg, logger, version, remove_in): the wrapper, which
\* holds the message made at decoration time
wrap_func(name, kind, msg, logger, version, remove_in) ==
    LET message == default_deprecation_msg(kind, msg, version, remove_in)
        doc == deprecation_docstring(kind, msg, version, remove_in)
    IN  IF doc.raised THEN [outcome |-> "DeveloperError", wrapper |-> NoWrapper]
        ELSE [outcome |-> "ok",
              wrapper |-> [wraps |-> name, message |-> as_message(message),
                           logger |-> logger, doc |-> doc.doc]]

\* _wrap_class(cls, msg, logger, version, remove_in): the docstring is made
\* anew when a message is given or no flag was found; __init__ (or __new__)
\* is wrapped only when no flag was found
wrap_class(cls, msg, logger, version, remove_in) ==
    LET flagIdx == IF cls.flagged THEN 0 ELSE -1
        found == flagIdx >= 0
        doc == IF msg # NoneMsg \/ ~found
               THEN deprecation_docstring("class", msg, version, remove_in)
               ELSE [raised |-> FALSE, doc |-> <<"", NoneMsg>>]
        init == wrap_func(cls.name, "class", msg, logger, version, remove_in)
    IN  IF doc.raised THEN [outcome |-> "DeveloperError", wrapper |-> NoWrapper]
        ELSE IF flagIdx < 0
        THEN init
        ELSE [outcome |-> "ok", wrapper |-> [NoWrapper EXCEPT !.doc = doc.doc]]

\* deprecated(msg, logger, version, remove_in)(obj)
deprecated(obj, msg, logger, version, remove_in) ==
    IF obj.kind = "class"
    THEN wrap_class(obj, msg, logger, version, remove_in)
    ELSE wrap_func(obj.name, obj.kind, msg, logger, version, remove_in)

\* a wrapper that runs the function and leaves the warning out
wrapper_without_warning(w, arg, frame, st) ==
    [outcome |-> "ok", events |-> <<"run">>, result |-> <<func(w.wraps, arg)>>,
     log |-> st.log, emitted |-> st.emitted]

\* wrapper(*args) of _wrap_func, called from the code running in frame
wrapper(w, arg, frame, st) ==
    LET cf == frame
        warned == deprecation_warning(w.message, w.logger, "", "None", cf,
                                      [f1 |-> frame, f2 |-> frame], st)
    IN  [outcome |-> "ok",
         events |-> (IF Len(warned.log) > Len(st.log) THEN <<"warning">> ELSE <<>>)
                    \o <<"run">>,
         result |-> <<func(w.wraps, arg)>>,
         log |-> warned.log, emitted |-> warned.emitted]

(***************************************************************************)
(* Inputs of the deprecation part                                          *)
(***************************************************************************)
OldNames == ModNames \ OnDisk   \* the names of removed modules
Msgs == {NOTSET, NoneMsg, UserMsg("moved")}
Versions == {"None", "1.0"}
Loggers == {"None"}
RemoveIns == {"None"}
ImportFrames == {UserFrame, ImportlibFrame}

Unchanged == [log |-> log, emitted |-> emitted_warnings]

DepLast(op, name, outcome, module, version, cached, r) ==
    [op |-> op, name |-> name, outcome |-> outcome, module |-> module,
     version |-> version, cached |-> cached,
     n_logged |-> Len(r.log) - Len(log),
     n_cached |-> Cardinality(r.emitted.msgs \ emitted_warnings.msgs)]

InitDeprecation ==
    /\ mapping = EmptyDict
    /\ sys_modules = EmptyDict
    /\ log = <<>>
       \* deprecation.py:249-252: no cache while testing or building the docs
    /\ emitted_warnings \in {[enabled |-> e, msgs |-> {}] : e \in BOOLEAN}
    /\ dep_last = [op |-> "init", name |-> "", outcome |-> "ok", module |-> NoModule,
                   version |-> "", cached |-> FALSE, n_logged |-> 0, n_cached |-> 0]

\* moved_module(old_name, new_name, msg, logger, version, remove_in)
moved_module(old_name, new_name, msg, logger, version, remove_in) ==
    /\ IF old_name \in DOMAIN mapping
       THEN /\ UNCHANGED mapping
            /\ dep_last' = DepLast("moved_module", old_name,
                                   IF mapping[old_name].new_name = new_name
                                   THEN "ok" ELSE "RuntimeError",
                                   NoModule, version, FALSE, Unchanged)
       ELSE /\ mapping' = Put(mapping, old_name,
                              [old_name |-> old_name, new_name |-> new_name,
                               msg |-> msg, logger |-> logger,
                               version |-> version, remove_in |-> remove_in])
            /\ dep_last' = DepLast("moved_module", old_name, "ok", NoModule,
                                   version, FALSE, Unchanged)
    /\ UNCHANGED <<sys_modules, log, emitted_warnings, gams_vars, bar_vars, dec_vars, highs_vars, bw_vars>>

\* `import name` (or importlib.import_module(name)) executed in `frame`
Import(name, frame) ==
    /\ LET r == import_module(name, frame, mapping,
                              [sys |-> sys_modules, log |-> log,
                               emitted |-> emitted_warnings])
       IN  /\ Len(r.log) <= MaxLog
           /\ sys_modules' = r.sys
           /\ log' = r.log
           /\ emitted_warnings' = r.emitted
           /\ dep_last' = DepLast("import", name, r.outcome, r.module, "",
                                  name \in DOMAIN sys_modules, r)
    /\ UNCHANGED <<mapping, gams_vars, bar_vars, dec_vars, highs_vars, bw_vars>>

\* a direct call deprecation_warning(msg, version=version, calling_frame=cf)
\* from the code running in frame f1, itself called from f2
DeprecationWarningCall(msg, version, cf, f1, f2) ==
    /\ LET r == deprecation_warning(msg, "None", version, "None", cf,
                                    [f1 |-> f1, f2 |-> f2],
                                    [log |-> log, emitted |-> emitted_warnings])
       IN  /\ Len(r.log) <= MaxLog
           /\ log' = r.log
           /\ emitted_warnings' = r.emitted
           /\ dep_last' = DepLast("deprecation_warning", "", r.outcome, NoModule,
                                  version, FALSE, r)
    /\ UNCHANGED <<mapping, sys_modules, gams_vars, bar_vars, dec_vars, highs_vars, bw_vars>>

\* moved_module and the imports it serves
NextMovedModule ==
    \/ \E old_name \in OldNames, new_name \in ModNames, msg \in Msgs,
          logger \in Loggers, version \in Versions, remove_in \in RemoveIns :
          new_name # old_name /\ moved_module(old_name, new_name, msg, logger, version, remove_in)
    \/ \E name \in ModNames, frame \in ImportFrames : Import(name, frame)

InitDeprecationOnly == InitDeprecation /\ GamsIdle /\ BarIdle /\ DecIdle /\ HighsIdle /\ BwIdle

SpecMovedModule == InitDeprecationOnly /\ [][NextMovedModule]_vars

\* direct calls of deprecation_warning
NextWarning ==
    \E msg \in {UserMsg("old api"), NoneMsg}, version \in Versions \cup {""},
       cf \in {NoFrame, UserFrame}, f1 \in {PyomoFrame, UserFrame},
       f2 \in {NoFrame, UserFrame} :
       DeprecationWarningCall(msg, version, cf, f1, f2)

SpecWarning == InitDeprecationOnly /\ [][NextWarning]_vars

\* obj = deprecated(msg, logger, version, remove_in)(obj), at import time
Decorate(obj, msg, logger, version, remove_in) ==
    LET r == deprecated(obj, msg, logger, version, remove_in)
    IN  /\ decorated' = IF r.outcome = "ok" THEN Put(decorated, obj.name, r.wrapper)
                        ELSE decorated
        /\ dec_last' = [NoDecLast EXCEPT !.op = "decorate", !.name = obj.name,
                                         !.kind = obj.kind, !.flagged = obj.flagged,
                                         !.msg = msg, !.version = version,
                                         !.outcome = r.outcome]
        /\ UNCHANGED <<dep_vars, gams_vars, bar_vars, highs_vars, bw_vars>>

\* a call of a decorated function or method from the code at frame
CallWrapped(name, arg, frame) ==
    /\ name \in DOMAIN decorated
    /\ decorated[name].wraps # ""
    /\ \E r \in {wrapper(decorated[name], arg, frame,
                         [log |-> log, emitted |-> emitted_warnings])} :
          /\ Len(r.log) <= MaxLog
          /\ log' = r.log
          /\ emitted_warnings' = r.emitted
          /\ dec_last' = [NoDecLast EXCEPT !.op = "call", !.name = name,
                                           !.outcome = r.outcome, !.arg = arg,
                                           !.frame = frame, !.events = r.events,
                                           !.result = r.result]
    /\ UNCHANGED <<decorated, mapping, sys_modules, dep_last, gams_vars, bar_vars, highs_vars, bw_vars>>

CallFrames == {UserFrame, [mod |-> "user", loc |-> "user.py:9"]}

\* decorations, and calls of what they wrapped
NextDecorator ==
    \/ \E obj \in Targets, msg \in {NoneMsg, UserMsg("use g")}, version \in Versions :
          Decorate(obj, msg, "None", version, "None")
    \/ \E name \in {"f", "C.m"}, arg \in {1, 2}, frame \in CallFrames :
          CallWrapped(name, arg, frame)

InitDecorator == InitDeprecation /\ GamsIdle /\ BarIdle /\ DecIdle /\ HighsIdle /\ BwIdle

SpecDecorator == InitDecorator /\ [][NextDecorator]_vars

(***************************************************************************)
(* The steps of test_highs_persistent.py                                   *)
(***************************************************************************)
HighsChange(model) ==
    /\ h_model' = model
    /\ h_last' = [NoHighsLast EXCEPT !.op = "change"]
    /\ UNCHANGED <<h_opt, dep_vars, gams_vars, bar_vars, dec_vars, bw_vars>>

\* del m.c1
del_constraint(c) ==
    /\ c \in h_model.cons
    /\ HighsChange([h_model EXCEPT !.cons = @ \ {c}])

\* m.p2.value = 2
set_param(p, v) ==
    /\ h_model.params[p] # v
    /\ HighsChange([h_model EXCEPT !.params[p] = v])

\* m.y.fix(1)
fix(v, val) ==
    /\ h_model.fixed[v] = Free
    /\ HighsChange([h_model EXCEPT !.fixed[v] = <<val>>])

\* m.y.unfix()
unfix(v) ==
    /\ h_model.fixed[v] # Free
    /\ HighsChange([h_model EXCEPT !.fixed[v] = Free])

\* opt = Highs()
NewHighs ==
    /\ h_opt.loaded
    /\ h_opt' = NotLoaded
    /\ h_last' = [NoHighsLast EXCEPT !.op = "new"]
    /\ UNCHANGED <<h_model, dep_vars, gams_vars, bar_vars, dec_vars, bw_vars>>

\* res = opt.solve(m)
HighsSolve ==
    LET r == Highs_solve(h_opt, h_model)
    IN  /\ h_opt' = r.opt
        /\ h_last' = [op |-> "solve", res |-> r.res, before |-> h_opt]
        /\ UNCHANGED <<h_model, dep_vars, gams_vars, bar_vars, dec_vars, bw_vars>>

NextHighs ==
    \/ \E c \in HighsCons : del_constraint(c)
    \/ \E p \in DOMAIN ParamValues : \E v \in ParamValues[p] : set_param(p, v)
    \/ \E v \in HighsVars : fix(v, 1)
    \/ \E v \in HighsVars : unfix(v)
    \/ NewHighs
    \/ HighsSolve

InitHighs == HighsIdle /\ DepIdle /\ GamsIdle /\ BarIdle /\ DecIdle /\ BwIdle

SpecHighs == InitHighs /\ [][NextHighs]_vars

(***************************************************************************)
(* The steps of test_trig_generates_exception, test_branching_priorities   *)
(* and test_invalid_suffix                                                 *)
(***************************************************************************)
BwBuild(model) ==
    /\ bw_model' = model
    /\ bw_last' = [NoBwLast EXCEPT !.op = "build"]
    /\ UNCHANGED <<dep_vars, gams_vars, bar_vars, dec_vars, highs_vars>>

\* m = ConcreteModel()
BwConcreteModel ==
    /\ bw_model # EmptyBwModel
    /\ BwBuild(EmptyBwModel)

\* m.obj = Objective(expr=sin(m.x))
BwObjective(f) ==
    /\ bw_model.obj = ""
    /\ BwBuild([bw_model EXCEPT !.obj = f])

\* m.c = Constraint(expr=...)
BwConstraint(f) ==
    /\ bw_model.con = ""
    /\ BwBuild([bw_model EXCEPT !.con = f])

\* m.priority = Suffix(direction=Suffix.EXPORT); m.priority[m.x] = 1; ...
BwSuffix(name, px, py) ==
    /\ name \notin DOMAIN bw_model.suffixes
    /\ BwBuild([bw_model EXCEPT !.suffixes = Put(@, name, [x |-> px, y |-> py])])

\* m.write(test_fname, format="bar")
BwWrite ==
    /\ \E out \in bar_write_outcomes(bw_model) :
          bw_last' = [op |-> "write", error |-> out.error, message |-> out.message,
                      file |-> out.file]
    /\ UNCHANGED <<bw_model, dep_vars, gams_vars, bar_vars, dec_vars, highs_vars>>

NextBaronWrite ==
    \/ BwConcreteModel
    \/ \E f \in UnaryFunctions : BwObjective(f)
    \/ \E f \in UnaryFunctions : BwConstraint(f)
    \/ \E name \in SuffixNames, px \in {1, 2}, py \in {2} : BwSuffix(name, px, py)
    \/ BwWrite

InitBaronWrite == BwIdle /\ HighsIdle /\ DepIdle /\ GamsIdle /\ BarIdle /\ DecIdle

SpecBaronWrite == InitBaronWrite /\ [][NextBaronWrite]_vars

(***************************************************************************)
(* Claims about deprecation.py                                             *)
(***************************************************************************)

\* The last operation was an import, through a name registered with
\* moved_module, that returned a module.
ImportedThroughOldName ==
    /\ dep_last.op = "import"
    /\ dep_last.outcome = "ok"
    /\ dep_last.name \in DOMAIN mapping

\* C8: once moved_module(old_name, new_name, ...) has registered old_name, an
\* import of old_name that returns gives the very module object that importing
\* new_name gives, and sys.modules then maps both names to that one object.
C8_OldNameImportsNewModule ==
    ImportedThroughOldName =>
        LET new_name == mapping[dep_last.name].new_name
            again == import_module(new_name, UserFrame, mapping,
                                   [sys |-> sys_modules, log |-> log,
                                    emitted |-> emitted_warnings])
        IN  /\ again.outcome = "ok"
            /\ again.module = dep_last.module
            /\ {dep_last.name, new_name} \subseteq DOMAIN sys_modules
            /\ sys_modules[dep_last.name] = dep_last.module
            /\ sys_modules[new_name] = dep_last.module

\* C8 witness: an old name was loaded through the MovedModuleFinder (it was
\* not in sys.modules before) and now shares the new name's module object.
C8_Witness ==
    /\ ImportedThroughOldName
    /\ ~dep_last.cached
    /\ dep_last.module \in OnDisk
    /\ sys_modules[dep_last.name] = sys_modules[mapping[dep_last.name].new_name]

\* C9 as stated: every import through a registered old name that returns has
\* emitted a deprecation warning unless the registered msg is None, and with
\* msg None (and a new name that is not itself a moved name) has emitted none.
C9_EveryImportThroughOldNameWarns ==
    ImportedThroughOldName =>
        LET info == mapping[dep_last.name]
        IN  /\ info.msg # NoneMsg => dep_last.n_logged >= 1
            /\ (info.msg = NoneMsg /\ info.new_name \notin DOMAIN mapping)
                   => dep_last.n_logged = 0

\* C10: a deprecation_warning call with version=None raises DeveloperError,
\* hands no record to the logger and adds nothing to the emitted-warnings cache.
C10_VersionNoneRaisesBeforeLogging ==
    [][(dep_last'.op = "deprecation_warning" /\ dep_last'.version = "None")
          => /\ dep_last'.outcome = "DeveloperError"
             /\ log' = log
             /\ emitted_warnings' = emitted_warnings]_vars

\* C10 witness: a call with version=None has raised after earlier calls had
\* logged and filled the cache.
C10_Witness ==
    /\ dep_last.op = "deprecation_warning"
    /\ dep_last.version = "None"
    /\ dep_last.outcome = "DeveloperError"
    /\ Len(log) > 0
    /\ emitted_warnings.msgs # {}

(***************************************************************************)
(* Claims about GAMS.py                                                    *)
(***************************************************************************)

\* the solver_io keyword of the last construction, "absent" when not given
C7_solver_io ==
    IF "solver_io" \in DOMAIN gams_last.kwds THEN gams_last.kwds["solver_io"]
    ELSE "absent"

\* C7: constructing GAMSSolver with solver_io 'direct' or 'python' yields the
\* '_gams_direct' solver; 'shell', 'gms', None or no solver_io yields the
\* '_gams_shell' solver; any other value logs 'Unknown IO type' and yields
\* None; the keywords forwarded to the factory are the caller's without
\* solver_io.
C7_SolverIoSelectsInterface ==
    gams_last.op = "new" =>
        /\ C7_solver_io \in {"direct", "python"} =>
              solver = "_gams_direct" /\ gams_last.logged = {}
        /\ C7_solver_io \in {"shell", "gms", "None", "absent"} =>
              solver = "_gams_shell" /\ gams_last.logged = {}
        /\ C7_solver_io \notin {"direct", "python", "shell", "gms", "None", "absent"} =>
              /\ solver = "None"
              /\ gams_last.logged = {<<"Unknown IO type: %s", C7_solver_io>>}
              /\ gams_last.logged \subseteq solver_log
        /\ solver # "None" =>
              /\ Len(gams_last.factory) = 1
              /\ DOMAIN gams_last.factory[1] = DOMAIN gams_last.kwds \ {"solver_io"}
              /\ \A k \in DOMAIN gams_last.factory[1] :
                    gams_last.factory[1][k] = gams_last.kwds[k]

\* a solver was built from solver_io='python' and one more keyword
C7_Witness ==
    /\ gams_last.op = "new"
    /\ C7_solver_io = "python"
    /\ "validate" \in DOMAIN gams_last.kwds
    /\ solver = "_gams_direct"

\* the keys solve takes for itself
C6_Consumed ==
    {"load_solutions", "tee", "logfile", "keepfiles", "tmpdir", "report_timing",
     "io_options"}

C6_Default ==
    [load_solutions |-> "True", tee |-> "False", logfile |-> "None",
     keepfiles |-> "False", tmpdir |-> "None", report_timing |-> "False"]

\* the keys given to the last solve, by self.options or by keyword
C6_Given == DOMAIN gams_last.kwds \cup DOMAIN gams_last.self_before

\* the value given for key k: the keyword if there is one, else self.options
C6_Effective(k) ==
    IF k \in DOMAIN gams_last.kwds THEN gams_last.kwds[k] ELSE gams_last.self_before[k]

C6_io_options ==
    IF "io_options" \in C6_Given THEN C6_Effective("io_options") ELSE EmptyDict

C6_Forced == IF gams_last.kind = "shell" THEN {"put_results"} ELSE {}

\* C6: in a solve the options are self.options overridden by the keywords;
\* the seven keys of solve are taken by solve and do not reach the writer;
\* every other key reaches the writer in io_options with its effective
\* value, over an io_options entry of the same name, the other io_options
\* entries are kept; in GAMSShell put_results is 'results' whatever was given.
C6_OptionsMergedIntoIoOptions ==
    gams_last.op = "solve" =>
        /\ \A k \in C6_Consumed \ {"io_options"} :
              gams_last.popped[k] = IF k \in C6_Given THEN C6_Effective(k)
                                    ELSE C6_Default[k]
        /\ \A k \in C6_Consumed : k \notin DOMAIN gams_last.io
        /\ \A k \in C6_Given \ C6_Consumed :
              /\ k \in DOMAIN gams_last.io
              /\ k \notin C6_Forced => gams_last.io[k] = C6_Effective(k)
        /\ \A k \in DOMAIN C6_io_options \ (C6_Given \cup C6_Forced) :
              k \in DOMAIN gams_last.io /\ gams_last.io[k] = C6_io_options[k]
        /\ gams_last.kind = "shell" => gams_last.io["put_results"] = "results"
        /\ DOMAIN gams_last.io \subseteq
              (C6_Given \ C6_Consumed) \cup DOMAIN C6_io_options
              \cup (IF gams_last.kind = "shell"
                    THEN {"put_results", "put_results_format"} ELSE {})

\* a shell solve given put_results='mine' and warmstart by keyword, over an
\* io_options dict of self.options that sets warmstart too
C6_Witness ==
    /\ gams_last.op = "solve"
    /\ gams_last.kind = "shell"
    /\ DOMAIN gams_last.kwds = {"put_results", "warmstart"}
    /\ DOMAIN gams_last.self_before = {"io_options"}
    /\ "warmstart" \in DOMAIN gams_last.self_before["io_options"]
    /\ gams_last.io["warmstart"] = "True"
    /\ gams_last.io["put_results"] = "results"

\* the names of the files a solve makes
C4_SolveFiles(kind, format) ==
    IF kind = "shell"
    THEN {"model.gms", "output.lst"}
         \cup (IF format = "gdx" THEN {"GAMS_MODEL_p.gdx", "results_s.gdx"}
               ELSE {"results.dat", "resultsstat.dat"})
    ELSE {"_gams_py_gjo0.gms", "_gams_py_gjo0.lst", "_gams_py_gdb0.gdx"}

C5_ResultsFollowLoadSolutions ==
    (gams_last.op = "solve" /\ gams_last.outcome = "ok" /\ gams_last.model = "concrete") =>
        IF gams_last.load_solutions = "True"
        THEN /\ model_values["concrete"] = gams_last.smap_id
             /\ Len(results.solution) = 0
             /\ results.has_smap_id /\ results.smap_id = <<>>
        ELSE /\ Len(results.solution) = 1
             /\ results.solution[1].id = gams_last.smap_id
             /\ results.smap = <<gams_last.smap>>
             /\ gams_last.smap_id \notin DOMAIN model_smaps["concrete"]

\* a solve with load_solutions=False returned after an earlier solve had
\* loaded its solution
C5_Witness ==
    /\ gams_last.op = "solve"
    /\ gams_last.outcome = "ok"
    /\ gams_last.model = "concrete"
    /\ gams_last.load_solutions = "False"
    /\ model_values["concrete"] = 1
    /\ gams_last.smap_id = 2
    /\ Len(results.solution) = 1

\* the components the writer gives a symbol
C3_Written == {"c_eq", "c_rng", "obj", "x", "y"}

C11_NoVersionAlwaysRaises ==
    (dec_last.op = "decorate" /\ dec_last.version = "None")
        => dec_last.outcome = "DeveloperError"

\* the call under way repeats a warning the cache already holds: the same
\* message from the same calling location
C12_Repeat(name, frame) ==
    /\ emitted_warnings.enabled
    /\ \E m \in emitted_warnings.msgs :
          m.text = decorated[name].message /\ m.loc = frame.loc

\* C12 (amended): a call of a wrapped function or method returns what the
\* function returns for the same argument; a deprecation warning with the
\* message made at decoration time is logged before the function runs,
\* unless the cache of emitted warnings is on and already holds that message
\* for the calling location, in which case nothing is logged.
C12_WrappedCallWarnsFirst ==
    [][dec_last'.op = "call" =>
          LET name == dec_last'.name
          IN  /\ dec_last'.result = <<func(name, dec_last'.arg)>>
              /\ IF C12_Repeat(name, dec_last'.frame)
                 THEN dec_last'.events = <<"run">> /\ log' = log
                 ELSE /\ dec_last'.events = <<"warning", "run">>
                      /\ Len(log') = Len(log) + 1
                      /\ log'[Len(log')].msg.text = decorated[name].message
                      /\ log'[Len(log')].msg.loc = dec_last'.frame.loc]_vars

\* a wrapped function was called with the cache on, its warning was logged
\* and then its result returned
C12_Witness ==
    /\ dec_last.op = "call"
    /\ dec_last.events = <<"warning", "run">>
    /\ dec_last.result = <<func(dec_last.name, dec_last.arg)>>
    /\ emitted_warnings.enabled
    /\ Len(log) >= 1

\* C12 (as stated): each call of a wrapped function or method logs a
\* deprecation warning before the function runs and returns its result.
C12_EveryCallLogs ==
    dec_last.op = "call" =>
        /\ dec_last.events = <<"warning", "run">>
        /\ dec_last.result = <<func(dec_last.name, dec_last.arg)>>

(***************************************************************************)
(* Claims about the persistent Highs solver                                *)
(***************************************************************************)

=============================================================================
